---- MODULE Spec2Model ----
(***************************************************************************)
(* State-machine model of password_mngr.PasswordManager: the key file, the *)
(* sqlite database (committed rows and the connection's open transaction), *)
(* the manager object, and the interactive add_password / get_password /   *)
(* close operations.                                                       *)
(***************************************************************************)
EXTENDS Integers, Sequences, FiniteSets, TLC

VARIABLES
    keyFile,    \* contents of the file at key_file, or NoFile
    dbFile,     \* the database on disk: NoFile or [table, rows] (committed rows)
    mgr,        \* "none" (no PasswordManager object), "ready" (constructed)
    conn,       \* self.conn: "none", "open", "closed"
    fernet,     \* key held by self.fernet, or NoKey
    pending,    \* rows inserted in the connection's open transaction, not yet committed
    pc,         \* position of a running add_password call, or idle
    last,       \* history: the last call, its argument, the branch it took, its return value
    saved,      \* history: service -> plaintext of the add_password that printed "saved successfully"
    restarted,  \* history: services saved before the most recent construction
    keyGen,     \* history: how many times a key was generated and written (saturates at 2)
    firstKey    \* history: key loaded by the first successful _initialize_encryption

vars == <<keyFile, dbFile, mgr, conn, fernet, pending, pc, last, saved, restarted, keyGen, firstKey>>

-----------------------------------------------------------------------------
(* Bounds of the model *)

\* number of distinct values the random IV of a Fernet token ranges over
MaxIV == 2

(* Program constants *)
max_attempts == 3
max_attempts_confirm == 3
MinLength == 8
\* length of a key written by Fernet.generate_key(): 32 bytes, url-safe base64
FernetKeyLen == 44

\* an absent file
NoFile == [exists |-> FALSE]
\* self.fernet before a key was loaded
NoKey == "NoKey"
\* Python's None
None == [kind |-> "None"]
\* cryptography.fernet.InvalidToken raised by decrypt
InvalidToken == [kind |-> "InvalidToken"]

\* service names typed at the prompt: two that differ only in case
Services == {"svc", "SVC"}

\* keys Fernet.generate_key() may return
Keys == {"K1", "K2"}

IVs == 1..MaxIV

-----------------------------------------------------------------------------
(* Character classes of validate_password's regular expressions *)

Upper == {"A","B","C","D","E","F","G","H","I","J","K","L","M",
          "N","O","P","Q","R","S","T","U","V","W","X","Y","Z"}
Lower == {"a","b","c","d","e","f","g","h","i","j","k","l","m",
          "n","o","p","q","r","s","t","u","v","w","x","y","z"}
Digit == {"0","1","2","3","4","5","6","7","8","9"}
Special == {"!","@","#","$","%","^","&","*","(",")",",",".","?","\"",":","{","}","|","<",">"}

\* passwords typed at the getpass prompts, as sequences of characters
PwMyPass == <<"M","y","P","a","s","s","1","2","3","!">>
PwSecret == <<"S","e","c","r","e","t","1","2","3","!">>
PwShort == <<"A","b","1","!">>
Passwords == {PwMyPass, PwSecret, PwShort}

HasChar(password, class) == \E i \in 1..Len(password) : password[i] \in class

\* variant: the digit check is made first
ErrorsDigitFirst(password) ==
    (IF ~HasChar(password, Digit) THEN <<"- At least one number">> ELSE <<>>)
    \o (IF Len(password) < MinLength THEN <<"- At least 8 characters long">> ELSE <<>>)
    \o (IF ~HasChar(password, Upper) THEN <<"- At least one uppercase letter">> ELSE <<>>)
    \o (IF ~HasChar(password, Lower) THEN <<"- At least one lowercase letter">> ELSE <<>>)
    \o (IF ~HasChar(password, Special) THEN <<"- At least one special character ">> ELSE <<>>)

\* validate_password: <<is_valid, errors>>
Errors(password) ==
    (IF Len(password) < MinLength THEN <<"- At least 8 characters long">> ELSE <<>>)
    \o (IF ~HasChar(password, Upper) THEN <<"- At least one uppercase letter">> ELSE <<>>)
    \o (IF ~HasChar(password, Lower) THEN <<"- At least one lowercase letter">> ELSE <<>>)
    \o (IF ~HasChar(password, Digit) THEN <<"- At least one number">> ELSE <<>>)
    \o (IF ~HasChar(password, Special) THEN <<"- At least one special character ">> ELSE <<>>)

\* variant: every password is reported valid
validate_passwordAlways(password) == <<TRUE, Errors(password)>>

validate_password(password) == <<Len(Errors(password)) = 0, Errors(password)>>

-----------------------------------------------------------------------------
(* Text, bytes and Fernet tokens.  A str is [kind |-> "plain", chars] or    *)
(* [kind |-> "token", key, iv, data]; bytes wrap a str.                     *)

\* a Python str holding the characters typed
Plain(password) == [kind |-> "plain", chars |-> password]

\* str.encode()
Encode(text) == [bytes |-> text]

\* bytes.decode()
Decode(b) == b.bytes

\* Fernet(key).encrypt(data) with the IV it drew: a token over (key, iv, data)
FernetEncrypt(key, iv, data) ==
    [bytes |-> [kind |-> "token", key |-> key, iv |-> iv, data |-> data.bytes]]

\* Fernet(key).decrypt(token): the data when the token was made under key, else InvalidToken
FernetDecrypt(key, token) ==
    IF token.bytes.kind = "token" /\ token.bytes.key = key
    THEN [bytes |-> token.bytes.data]
    ELSE [bytes |-> InvalidToken]

\* variant: the password is returned as typed
encrypt_passwordPlain(key, iv, password) == password

\* encrypt_password: self.fernet.encrypt(password.encode()).decode()
encrypt_password(key, iv, password) == Decode(FernetEncrypt(key, iv, Encode(password)))

\* variant: the stored text is returned without decrypting it
decrypt_passwordIdentity(key, encrypted_password) == encrypted_password

\* decrypt_password: self.fernet.decrypt(encrypted_password.encode()).decode(),
\* InvalidToken standing for the exception it lets through
decrypt_password(key, encrypted_password) == Decode(FernetDecrypt(key, Encode(encrypted_password)))

-----------------------------------------------------------------------------
(* The passwords table *)

\* a key file holding the bytes of key
KeyFileOf(key) == [exists |-> TRUE, key |-> key, len |-> FernetKeyLen]

\* a file at key_file that does not hold a whole key: empty, or cut short
EmptyKeyFile == [exists |-> TRUE, key |-> "", len |-> 0]
ShortKeyFile == [exists |-> TRUE, key |-> "K1-cut", len |-> FernetKeyLen - 1]

\* key files found at key_file before the first run: none, or one of the wrong length
InitialKeyFiles == {NoFile, EmptyKeyFile, ShortKeyFile}

\* variant: the existing key file is not looked for, a key is generated on every run
KeyFileExistsNever(file) == FALSE

\* os.path.exists(self.key_file)
KeyFileExists(file) == file.exists

\* variant: the key read from the file is used without a check of its length
FernetAcceptsAny(file) == TRUE

\* Fernet(key) accepts a key of 32 url-safe base64-encoded bytes, else raises ValueError
FernetAccepts(file) == file.len = FernetKeyLen

\* variant: a comparison under which no two names are the same
SameServiceNever(a, b) == FALSE

\* the UNIQUE constraint on service compares TEXT with the BINARY collation
SameService(a, b) == a = b

\* rows the connection's statements see: committed rows, then its own uncommitted ones
Visible == IF dbFile.exists THEN dbFile.rows \o pending ELSE pending

\* variant: a service column declared without UNIQUE
ServiceTakenNever(rows, service) == FALSE

\* whether INSERT would violate UNIQUE(service)
ServiceTaken(rows, service) == \E i \in 1..Len(rows) : SameService(rows[i].service, service)

\* AUTOINCREMENT: one more than the largest id in the table
NextId(rows) ==
    IF Len(rows) = 0 THEN 1
    ELSE 1 + (CHOOSE m \in {rows[i].id : i \in 1..Len(rows)} :
                 \A i \in 1..Len(rows) : rows[i].id <= m)

\* INSERT INTO passwords (service, password) VALUES (?, ?)
InsertRow(rows, pend, service, encrypted) ==
    Append(pend, [id |-> NextId(rows \o pend), service |-> service, password |-> encrypted])

\* variant: the commit is left out, the transaction stays open
NoCommit(rows, pend) == [rows |-> rows, pending |-> pend]

\* self.conn.commit(): the open transaction's rows become committed rows
Commit(rows, pend) == [rows |-> rows \o pend, pending |-> <<>>]

\* variant: the WHERE clause is left out
SelectAll(rows, service) == rows

\* SELECT service, password FROM passwords WHERE service = ?  then fetchone():
\* the rows that match, in table order
SelectByService(rows, service) == SelectSeq(rows, LAMBDA r : r.service = service)

\* outcomes of the storage layer during the try block of add_password
Faults == {"none", "execute", "commit_busy", "commit_rollback"}

Idle == [at |-> "idle"]

\* a finished call: the branch it took, what it returned, and its input: for add_password
\* the password that reached the try block, for close the state the connection was in
Result(op, service, branch, ret) ==
    [op |-> op, service |-> service, branch |-> branch, ret |-> ret, input |-> None]

-----------------------------------------------------------------------------
Init ==
    /\ keyFile \in InitialKeyFiles
    /\ dbFile = NoFile
    /\ mgr = "none"
    /\ conn = "none"
    /\ fernet = NoKey
    /\ pending = <<>>
    /\ pc = Idle
    /\ last = Result("start", "", "ok", None)
    /\ saved = [s \in Services |-> None]
    /\ restarted = {}
    /\ keyGen = 0
    /\ firstKey = NoKey

\* _initialize_encryption: the key file after the call, for a generated key k
KeyFileAfterInit(file, k) == IF KeyFileExists(file) THEN file ELSE KeyFileOf(k)

\* PasswordManager(db_name, key_file): connect, load or generate the key, create the table
Open ==
    /\ pc = Idle
    /\ ~(mgr = "ready" /\ conn = "open")
    /\ \E k \in Keys :
        LET connected == IF dbFile.exists THEN dbFile
                         ELSE [exists |-> TRUE, table |-> FALSE, rows |-> <<>>]
            file == KeyFileAfterInit(keyFile, k)
        IN  /\ keyFile' = file
            /\ keyGen' = IF KeyFileExists(keyFile) THEN keyGen
                         ELSE IF keyGen < 2 THEN keyGen + 1 ELSE 2
            /\ conn' = "open"
            /\ pending' = <<>>
            /\ IF FernetAccepts(file)
               THEN /\ dbFile' = [connected EXCEPT !.table = TRUE]
                    /\ mgr' = "ready"
                    /\ fernet' = file.key
                    /\ firstKey' = IF firstKey = NoKey THEN file.key ELSE firstKey
                    /\ restarted' = {s \in DOMAIN saved : saved[s] # None}
                    /\ last' = Result("init", "", "ok", None)
               ELSE /\ dbFile' = connected
                    /\ mgr' = "none"
                    /\ fernet' = NoKey
                    /\ last' = Result("init", "", "ValueError", None)
                    /\ UNCHANGED <<firstKey, restarted>>
    /\ UNCHANGED <<pc, saved>>

\* variant: closing a connection that is already closed raises
CloseStrict ==
    /\ pc = Idle
    /\ mgr = "ready"
    /\ conn' = "closed"
    /\ pending' = <<>>
    /\ last' = [Result("close", "", IF conn = "closed" THEN "ProgrammingError" ELSE "ok", None)
                    EXCEPT !.input = [kind |-> "conn", state |-> conn]]
    /\ UNCHANGED <<keyFile, dbFile, mgr, fernet, pc, saved, restarted, keyGen, firstKey>>

\* close(): closing the connection discards its uncommitted transaction
Close ==
    /\ pc = Idle
    /\ mgr = "ready"
    /\ conn' = "closed"
    /\ pending' = <<>>
    /\ last' = [Result("close", "", "ok", None) EXCEPT !.input = [kind |-> "conn", state |-> conn]]
    /\ UNCHANGED <<keyFile, dbFile, mgr, fernet, pc, saved, restarted, keyGen, firstKey>>

\* variant: the row is unpacked before it is tested, so a missing row raises inside the try
get_passwordUnpackFirst(service_name) ==
    IF conn # "open" THEN <<"error", None>>
    ELSE LET result == SelectByService(Visible, service_name)
         IN  IF Len(result) > 0
             THEN LET decrypted == decrypt_password(fernet, result[1].password)
                  IN  IF decrypted = InvalidToken THEN <<"error", None>>
                      ELSE <<"found", decrypted>>
             ELSE <<"error", None>>

\* get_password(service_name): <<branch, return value>>
get_password(service_name) ==
    IF conn # "open" THEN <<"error", None>>
    ELSE LET result == SelectByService(Visible, service_name)
         IN  IF Len(result) > 0
             THEN LET decrypted == decrypt_password(fernet, result[1].password)
                  IN  IF decrypted = InvalidToken THEN <<"error", None>>
                      ELSE <<"found", decrypted>>
             ELSE <<"notfound", None>>

GetPassword(service_name) ==
    /\ pc = Idle
    /\ mgr = "ready"
    /\ last' = Result("get_password", service_name,
                      get_password(service_name)[1], get_password(service_name)[2])
    /\ UNCHANGED <<keyFile, dbFile, mgr, conn, fernet, pending, pc, saved, restarted, keyGen, firstKey>>

\* the try block of add_password: encrypt, INSERT, commit; which except clause, if any, ended it
SaveAttempt(service_name, password, iv, fault) ==
    LET encrypted == encrypt_password(fernet, iv, Plain(password))
        rows == IF dbFile.exists THEN dbFile.rows ELSE <<>>
        same == [rows |-> rows, pending |-> pending]
    IN  IF conn # "open" \/ fault = "execute"
        THEN [branch |-> "error", db |-> same]
        ELSE IF ServiceTaken(Visible, service_name)
        THEN [branch |-> "exists", db |-> same]
        ELSE LET pend == InsertRow(rows, pending, service_name, encrypted)
             IN  IF fault = "commit_busy"
                 THEN [branch |-> "error", db |-> [rows |-> rows, pending |-> pend]]
                 ELSE IF fault = "commit_rollback"
                 THEN [branch |-> "error", db |-> [rows |-> rows, pending |-> <<>>]]
                 ELSE [branch |-> "saved", db |-> Commit(rows, pend)]

\* add_password(service_name) is called and shows its first "Enter password: " prompt
AddPassword(service_name) ==
    /\ pc = Idle
    /\ mgr = "ready"
    /\ pc' = [at |-> "password", service |-> service_name, attempt |-> 1]
    /\ last' = Result("add_password", service_name, "running", None)
    /\ UNCHANGED <<keyFile, dbFile, mgr, conn, fernet, pending, saved, restarted, keyGen, firstKey>>

\* variant: the attempt is compared with <= and a fourth password is asked for
EnterPasswordOffByOne(password) ==
    /\ pc.at = "password"
    /\ IF ~validate_password(password)[1]
       THEN IF pc.attempt <= max_attempts
            THEN /\ pc' = [pc EXCEPT !.attempt = @ + 1]
                 /\ UNCHANGED last
            ELSE /\ pc' = Idle
                 /\ last' = Result("add_password", pc.service, "invalid", None)
       ELSE /\ pc' = [at |-> "confirm", service |-> pc.service, attempt |-> pc.attempt,
                      password |-> password, attempt_confirm |-> 1]
            /\ UNCHANGED last
    /\ UNCHANGED <<keyFile, dbFile, mgr, conn, fernet, pending, saved, restarted, keyGen, firstKey>>

\* the user answers "Enter password: "
EnterPassword(password) ==
    /\ pc.at = "password"
    /\ IF ~validate_password(password)[1]
       THEN IF pc.attempt < max_attempts
            THEN /\ pc' = [pc EXCEPT !.attempt = @ + 1]
                 /\ UNCHANGED last
            ELSE /\ pc' = Idle
                 /\ last' = Result("add_password", pc.service, "invalid", None)
       ELSE /\ pc' = [at |-> "confirm", service |-> pc.service, attempt |-> pc.attempt,
                      password |-> password, attempt_confirm |-> 1]
            /\ UNCHANGED last
    /\ UNCHANGED <<keyFile, dbFile, mgr, conn, fernet, pending, saved, restarted, keyGen, firstKey>>

\* the user answers "Confirm password: "; on a match the try block runs and the call returns
EnterConfirm(confirm, iv, fault) ==
    /\ pc.at = "confirm"
    /\ IF pc.password = confirm
       THEN LET r == SaveAttempt(pc.service, pc.password, iv, fault)
            IN  /\ pc' = Idle
                /\ dbFile' = IF dbFile.exists THEN [dbFile EXCEPT !.rows = r.db.rows] ELSE dbFile
                /\ pending' = r.db.pending
                /\ last' = [Result("add_password", pc.service, r.branch, None)
                                EXCEPT !.input = Plain(pc.password)]
                /\ saved' = IF r.branch = "saved"
                            THEN [saved EXCEPT ![pc.service] = Plain(pc.password)]
                            ELSE saved
       ELSE /\ IF pc.attempt_confirm < max_attempts_confirm
               THEN /\ pc' = [pc EXCEPT !.attempt_confirm = @ + 1]
                    /\ UNCHANGED last
               ELSE /\ pc' = Idle
                    /\ last' = Result("add_password", pc.service, "mismatch", None)
            /\ UNCHANGED <<dbFile, pending, saved>>
    /\ UNCHANGED <<keyFile, mgr, conn, fernet, restarted, keyGen, firstKey>>

Next ==
    \/ Open
    \/ Close
    \/ \E s \in Services : GetPassword(s)
    \/ \E s \in Services : AddPassword(s)
    \/ \E p \in Passwords : EnterPassword(p)
    \/ \E p \in Passwords, iv \in IVs, fault \in Faults : EnterConfirm(p, iv, fault)

Spec == Init /\ [][Next]_vars

\* every prompt of a running add_password is answered
SpecAnswered ==
    /\ Spec
    /\ WF_vars(\E p \in Passwords : EnterPassword(p))
    /\ WF_vars(\E p \in Passwords, iv \in IVs, fault \in Faults : EnterConfirm(p, iv, fault))

-----------------------------------------------------------------------------
(* The key file is lost between two runs *)

\* the key file is removed while no connection is open, the database file stays; the
\* loss of a key the program generated is followed once
KeyFileLost ==
    /\ pc = Idle
    /\ conn = "closed"
    /\ keyFile.exists
    /\ keyGen < 2
    /\ keyFile' = NoFile
    /\ UNCHANGED <<dbFile, mgr, conn, fernet, pending, pc, last, saved, restarted, keyGen, firstKey>>

NextKeyLost ==
    \/ Next
    \/ KeyFileLost

SpecKeyLost == Init /\ [][NextKeyLost]_vars

-----------------------------------------------------------------------------
(* The process stops during the first run, inside _initialize_encryption *)

\* PasswordManager(...) on a path without a key file, the process stopping after
\* open(self.key_file, 'wb') created the file and before the key was written out in full
OpenCrash ==
    /\ pc = Idle
    /\ ~(mgr = "ready" /\ conn = "open")
    /\ ~KeyFileExists(keyFile)
    /\ keyFile' \in {EmptyKeyFile, ShortKeyFile}
    /\ dbFile' = IF dbFile.exists THEN dbFile
                 ELSE [exists |-> TRUE, table |-> FALSE, rows |-> <<>>]
    /\ mgr' = "none"
    /\ conn' = "none"
    /\ fernet' = NoKey
    /\ pending' = <<>>
    /\ last' = Result("init", "", "stopped", None)
    /\ UNCHANGED <<pc, saved, restarted, keyGen, firstKey>>

\* a first run: no key file yet
InitFirstRun == Init /\ keyFile = NoFile

NextCrash ==
    \/ Next
    \/ OpenCrash

SpecCrash == InitFirstRun /\ [][NextCrash]_vars

-----------------------------------------------------------------------------
(* The service name is whatever input() returned, the empty string included *)

\* service names typed at the prompt of main, one of them empty
TypedNames == {"svc", ""}

InitTyped ==
    /\ keyFile \in InitialKeyFiles
    /\ dbFile = NoFile
    /\ mgr = "none"
    /\ conn = "none"
    /\ fernet = NoKey
    /\ pending = <<>>
    /\ pc = Idle
    /\ last = Result("start", "", "ok", None)
    /\ saved = [s \in TypedNames |-> None]
    /\ restarted = {}
    /\ keyGen = 0
    /\ firstKey = NoKey

NextTyped ==
    \/ Open
    \/ Close
    \/ \E s \in TypedNames : GetPassword(s)
    \/ \E s \in TypedNames : AddPassword(s)
    \/ \E p \in Passwords : EnterPassword(p)
    \/ \E p \in Passwords, iv \in IVs, fault \in Faults : EnterConfirm(p, iv, fault)

SpecTyped == InitTyped /\ [][NextTyped]_vars

-----------------------------------------------------------------------------
(* validate_password on its own *)

\* candidates are a body of up to MaxBody characters followed by up to MaxPad fillers
MaxBody == 4
MaxPad == 8

\* one character of each class, and one that is in none
Alphabet == {"A", "a", "1", "!", "_"}

Pad(n) == [i \in 1..n |-> "_"]

Candidates ==
    {body \o Pad(n) : body \in UNION {[1..k -> Alphabet] : k \in 0..MaxBody}, n \in 0..MaxPad}

InitValidate ==
    /\ keyFile = NoFile
    /\ dbFile = NoFile
    /\ mgr = "none"
    /\ conn = "none"
    /\ fernet = NoKey
    /\ pending = <<>>
    /\ pc \in {[at |-> "validate", password |-> c] : c \in Candidates}
    /\ last = Result("start", "", "ok", None)
    /\ saved = [s \in Services |-> None]
    /\ restarted = {}
    /\ keyGen = 0
    /\ firstKey = NoKey

\* is_valid, errors = validate_password(password)
ValidatePassword ==
    /\ pc.at = "validate"
    /\ pc' = Idle
    /\ last' = [op |-> "validate_password", service |-> "", branch |-> "ok",
                ret |-> [kind |-> "tuple",
                         is_valid |-> validate_password(pc.password)[1],
                         errors |-> validate_password(pc.password)[2]],
                input |-> Plain(pc.password)]
    /\ UNCHANGED <<keyFile, dbFile, mgr, conn, fernet, pending, saved, restarted, keyGen, firstKey>>

NextValidate == ValidatePassword

SpecValidate == InitValidate /\ [][NextValidate]_vars

-----------------------------------------------------------------------------
(* Properties *)

Committed == IF dbFile.exists THEN dbFile.rows ELSE <<>>

HasRow(rows, service) == \E i \in 1..Len(rows) : rows[i].service = service

\* C1: in every reachable state the passwords table, committed rows and the rows of
\* the open transaction together, holds at most one row per service name, names
\* being compared exactly (so "svc" and "SVC" may both be present).
C1_OneRecordPerService ==
    \A i, j \in 1..Len(Visible) : i # j => Visible[i].service # Visible[j].service

\* "svc" and "SVC" are both committed and a further add_password was turned down as a duplicate
C1_Witness ==
    /\ HasRow(Committed, "svc") /\ HasRow(Committed, "SVC")
    /\ last.op = "add_password" /\ last.branch = "exists"

\* C2: when a row for s exists, an add_password for s whose password was validated and
\* confirmed never saves: it ends in the duplicate branch (in the error branch only when
\* the INSERT statement itself raised another error), leaves committed and uncommitted
\* rows as they were, and leaves what get_password(s) returns unchanged: the plaintext
\* stored first.
C2_DuplicatePutRejected ==
    [][\A s \in Services :
          (/\ pc.at = "confirm" /\ pc.service = s
           /\ pc' = Idle /\ last'.branch # "mismatch"
           /\ conn = "open" /\ HasRow(Visible, s))
          => /\ last'.branch \in {"exists", "error"}
             /\ last'.branch = "error" => \E iv \in IVs : EnterConfirm(pc.password, iv, "execute")
             /\ dbFile' = dbFile
             /\ pending' = pending
             /\ get_password(s)' = get_password(s)
             /\ get_password(s)[1] = "found"]_vars

\* a put of another password was turned down for a saved service, whose get still gives the first
C2_Witness ==
    /\ last.op = "add_password" /\ last.branch = "exists"
    /\ saved[last.service] # None
    /\ last.input # saved[last.service]
    /\ get_password(last.service) = <<"found", saved[last.service]>>

\* C3: over any sequence of constructions on one key path, a key is generated and written
\* at most once, and only when no file was there; an existing key file never changes; every
\* constructed manager holds the key of the file, which is the key the first one loaded;
\* and once a key was generated the file exists and is not empty.
C3_KeyLoadOrCreateIdempotent ==
    /\ [](/\ keyGen <= 1
          /\ keyGen = 1 => (keyFile.exists /\ keyFile.len > 0)
          /\ mgr = "ready" => /\ keyFile.exists /\ keyFile.len > 0
                              /\ fernet = keyFile.key
                              /\ fernet = firstKey)
    /\ [][/\ keyFile.exists => keyFile' = keyFile
          /\ keyGen' # keyGen => (~keyFile.exists /\ keyGen = 0)]_vars

\* a later construction, made after passwords were saved, loaded the key generated by the first
C3_Witness ==
    /\ last.op = "init" /\ last.branch = "ok"
    /\ restarted # {}
    /\ keyGen = 1
    /\ fernet = firstKey

\* the row of service among rows, when there is exactly one
RowOf(rows, service) == SelectByService(rows, service)[1]

\* C4: a password reported as saved is committed when add_password returns: its row is among
\* the committed rows from then on, also after close, and decrypts under the key of the key
\* file to the plaintext entered; and after close and a new construction on the same
\* paths, get_password for a service saved earlier returns that plaintext.
C4_SurvivesRestart ==
    /\ \A s \in Services :
          saved[s] # None =>
             /\ HasRow(Committed, s)
             /\ keyFile.exists
             /\ decrypt_password(keyFile.key, RowOf(Committed, s).password) = saved[s]
    /\ (last.op = "get_password" /\ conn = "open" /\ last.service \in restarted)
          => (last.branch = "found" /\ last.ret = saved[last.service])

\* after a restart, get_password returned the plaintext saved by the earlier manager
C4_Witness ==
    /\ last.op = "get_password" /\ conn = "open"
    /\ last.service \in restarted
    /\ last.branch = "found"
    /\ last.ret = saved[last.service]

\* C5: while the manager is open, get_password(s) for every saved service s finds a row and
\* returns exactly the plaintext saved for s, whatever other rows the table holds and in
\* whatever order they were stored.
C5_NoCrossContamination ==
    (mgr = "ready" /\ conn = "open") =>
        \A s \in Services : saved[s] # None => get_password(s) = <<"found", saved[s]>>

\* both services are saved with different passwords and a get returned the one of its service
C5_Witness ==
    /\ \A s \in Services : saved[s] # None
    /\ saved["svc"] # saved["SVC"]
    /\ last.op = "get_password" /\ last.branch = "found"
    /\ last.ret = saved[last.service]

\* C6: for every plaintext P, decrypting under the key the manager holds what was encrypted
\* under the key the first manager loaded gives P, for every IV; so the round trip holds
\* within one manager and across a later manager that loaded the key from the same file.
C6_RoundTrip ==
    mgr = "ready" =>
        \A p \in Passwords, iv \in IVs :
            decrypt_password(fernet, encrypt_password(firstKey, iv, Plain(p))) = Plain(p)

\* a later manager decrypted a token that an earlier manager had encrypted
C6_Witness ==
    /\ mgr = "ready" /\ conn = "open"
    /\ last.op = "get_password" /\ last.branch = "found"
    /\ last.service \in restarted
    /\ \E iv \in IVs :
          RowOf(Committed, last.service).password
             = encrypt_password(firstKey, iv, last.ret)

\* C8: every row of the table holds in its password column the output of encrypt_password
\* under the key of the key file for some password typed, never that password itself, and
\* the row of a saved service holds the encryption of the plaintext saved for it.
C8_NeverPlaintext ==
    \A i \in 1..Len(Visible) :
        /\ keyFile.exists
        /\ \E p \in Passwords, iv \in IVs :
              /\ Visible[i].password = encrypt_password(keyFile.key, iv, Plain(p))
              /\ Visible[i].password # Plain(p)
              /\ saved[Visible[i].service] # None => saved[Visible[i].service] = Plain(p)

\* a saved password sits in the table as a token
C8_Witness ==
    \E i \in 1..Len(Committed) :
        /\ saved[Committed[i].service] # None
        /\ Committed[i].password.kind = "token"
        /\ Committed[i].password.data = saved[Committed[i].service]

\* C9 as stated: every add_password that ends otherwise than by saving leaves the
\* committed rows and the open transaction exactly as they were when it was called.
C9_FailedPutLeavesStore ==
    [][(pc.at \in {"password", "confirm"} /\ pc' = Idle /\ last'.branch # "saved")
          => (dbFile' = dbFile /\ pending' = pending)]_vars

\* C10: get_password for a service without a row on an open manager takes the not-found
\* branch, returns None, and leaves key file, database and open transaction unchanged.
C10_GetNotFound ==
    [][\A s \in Services :
          (GetPassword(s) /\ conn = "open" /\ ~HasRow(Visible, s))
          => /\ last'.branch = "notfound"
             /\ last'.ret = None
             /\ UNCHANGED <<keyFile, dbFile, pending>>]_vars

\* a get for a service without a row, while another service has one, came back not found
C10_Witness ==
    /\ last.op = "get_password" /\ last.branch = "notfound" /\ last.ret = None
    /\ conn = "open"
    /\ ~HasRow(Visible, last.service)
    /\ Len(Visible) > 0

\* C11 as stated: when get_password finds a row whose stored text does not decrypt under
\* the manager's key, the decryption failure reaches the caller, and what the caller gets
\* is not what it gets for a service without a row (None).
C11_DecryptFailurePropagates ==
    (/\ last.op = "get_password" /\ conn = "open"
     /\ HasRow(Visible, last.service)
     /\ decrypt_password(fernet, RowOf(Visible, last.service).password) = InvalidToken)
    => (last.ret = InvalidToken /\ last.ret # None)

\* C12 as stated: an add_password with the empty service name never ends by saving, and
\* no row of the table, committed or not, has the empty string as its service.
C12_EmptyServiceRejected ==
    /\ \A i \in 1..Len(Visible) : Visible[i].service # ""
    /\ (last.op = "add_password" /\ last.service = "") => last.branch # "saved"

\* C13: while the file at key_file exists with a length other than that of a key (an
\* empty file included), every construction ends with the error raised by Fernet(key),
\* the key file is left as it is, nothing is generated, and no manager object holding a
\* key comes to exist.
C13_CorruptKeyFileFatal ==
    /\ []((keyFile.exists /\ keyFile.len # FernetKeyLen)
             => (mgr = "none" /\ fernet = NoKey /\ keyGen = 0))
    /\ [][(keyFile.exists /\ keyFile.len # FernetKeyLen)
             => /\ keyFile' = keyFile
                /\ Open => (last'.branch = "ValueError" /\ mgr' = "none")]_vars

\* a construction on an empty key file failed and left the file empty
C13_Witness ==
    /\ last.op = "init" /\ last.branch = "ValueError"
    /\ keyFile = EmptyKeyFile
    /\ mgr = "none"

\* C14 as stated: once the connection is closed, what get_password hands its caller
\* differs from what it hands it for a service without a row (None), and add_password
\* never ends by saving.
C14_FailFastAfterClose ==
    /\ (last.op = "get_password" /\ conn = "closed") => last.ret # None
    /\ (last.op = "add_password" /\ conn = "closed") => last.branch # "saved"

\* C15: every close() of a constructed manager, the first and any later one, returns
\* without an error and leaves the connection closed, and changes neither the committed
\* rows nor the key file.
C15_CloseIdempotent ==
    /\ [](last.op = "close" => (last.branch = "ok" /\ conn = "closed" /\ pending = <<>>))
    /\ [][Close => (dbFile' = dbFile /\ keyFile' = keyFile /\ mgr' = mgr /\ fernet' = fernet)]_vars

\* close() was called on a manager already closed, with passwords committed
C15_Witness ==
    /\ last.op = "close" /\ last.branch = "ok"
    /\ last.input = [kind |-> "conn", state |-> "closed"]
    /\ conn = "closed"
    /\ Len(Committed) > 0

\* C16 as stated: wherever the process stops, the key file is absent or holds the whole
\* generated key, so no construction ever reads an empty or cut key.
C16_KeyWriteAtomic ==
    /\ keyFile.exists => keyFile.len = FernetKeyLen
    /\ last.op = "init" => last.branch # "ValueError"

\* the checks of the password policy in their fixed order, each with its message
ViolationOrder ==
    <<"- At least 8 characters long", "- At least one uppercase letter",
      "- At least one lowercase letter", "- At least one number",
      "- At least one special character ">>

\* whether candidate c fails the check reported as message m
Fails(m, c) ==
    CASE m = "- At least 8 characters long" -> ~(Len(c) >= 8)
      [] m = "- At least one uppercase letter" -> \A i \in 1..Len(c) : c[i] \notin Upper
      [] m = "- At least one lowercase letter" -> \A i \in 1..Len(c) : c[i] \notin Lower
      [] m = "- At least one number" -> \A i \in 1..Len(c) : c[i] \notin Digit
      [] m = "- At least one special character " -> \A i \in 1..Len(c) : c[i] \notin Special

\* C17: validate_password returns ok exactly when it reports no violation; the violations
\* it reports are those checks of the fixed order (length, uppercase, lowercase, digit,
\* special character) that the candidate fails, in that order; and the call leaves key
\* file, database and connection as they were.
C17_ValidatePassword ==
    last.op = "validate_password" =>
        /\ last.ret.is_valid = (last.ret.errors = <<>>)
        /\ last.ret.errors = SelectSeq(ViolationOrder, LAMBDA m : Fails(m, last.input.chars))
        /\ keyFile = NoFile /\ dbFile = NoFile /\ pending = <<>> /\ conn = "none"

\* a candidate failed two checks that are not neighbours in the order
C17_Witness ==
    /\ last.op = "validate_password"
    /\ ~last.ret.is_valid
    /\ last.ret.errors = <<"- At least 8 characters long", "- At least one number">>

\* C18 as stated: the database is opened or created only after the key was initialised,
\* so a construction that failed in the key initialisation leaves no database file that
\* was not there before and no open connection.
C18_KeyBeforeDatabase ==
    (last.op = "init" /\ last.branch = "ValueError") => (dbFile = NoFile /\ conn # "open")

RowSet(rows) == {rows[i] : i \in 1..Len(rows)}

\* C19: while add_password runs, a row appears in the table only in the step in which a
\* confirmation equal to the password was entered, the password having passed the policy,
\* and that row holds the given service name and the encryption of that password under
\* the manager's key; the call gives up for invalid passwords only after the third one and
\* for mismatching confirmations only after the third one, and then no row has appeared.
C19_InsertOnlyValidatedConfirmed ==
    [][pc.at \in {"password", "confirm"} =>
         /\ \A r \in (RowSet(Visible))' \ RowSet(Visible) :
               /\ pc.at = "confirm"
               /\ Errors(pc.password) = <<>>
               /\ \E iv \in IVs, fault \in Faults : EnterConfirm(pc.password, iv, fault)
               /\ r.service = pc.service
               /\ \E iv \in IVs : r.password = encrypt_password(fernet, iv, Plain(pc.password))
               /\ last'.branch \in {"saved", "error"}
         /\ (pc' = Idle /\ last'.branch = "invalid")
               => (pc.at = "password" /\ pc.attempt = 3 /\ dbFile' = dbFile /\ pending' = pending)
         /\ (pc' = Idle /\ last'.branch = "mismatch")
               => (pc.at = "confirm" /\ pc.attempt_confirm = 3
                   /\ dbFile' = dbFile /\ pending' = pending)
         /\ last'.branch = "saved"
               => (RowSet(Visible))' \ RowSet(Visible) # {}]_vars

\* a password was saved and its row holds the encryption of what was entered and confirmed
C19_Witness ==
    /\ last.op = "add_password" /\ last.branch = "saved"
    /\ HasRow(Committed, last.service)
    /\ \E iv \in IVs :
          RowOf(Committed, last.service).password = encrypt_password(fernet, iv, last.input)
    /\ Errors(last.input.chars) = <<>>

\* C20: a running add_password is at its first, second or third password prompt or,
\* after a valid password, at its first, second or third confirmation prompt; every answer
\* moves it to the next prompt of the same kind, from the password prompts to the first
\* confirmation prompt, or ends the call; the answer that matches the password makes the
\* one insert attempt and ends the call whatever its outcome; and, every prompt being
\* answered, every call returns.
C20_AddPasswordTerminates ==
    /\ [](/\ pc.at = "password" => pc.attempt \in 1..3
          /\ pc.at = "confirm" => (pc.attempt \in 1..3 /\ pc.attempt_confirm \in 1..3))
    /\ [][/\ (pc.at = "password" /\ pc' # pc) =>
                \/ pc' = Idle
                \/ pc'.at = "password" /\ pc'.attempt = pc.attempt + 1
                \/ pc'.at = "confirm" /\ pc'.attempt = pc.attempt /\ pc'.attempt_confirm = 1
          /\ (pc.at = "confirm" /\ pc' # pc) =>
                \/ pc' = Idle
                \/ /\ pc'.at = "confirm" /\ pc'.attempt = pc.attempt
                   /\ pc'.attempt_confirm = pc.attempt_confirm + 1
                   /\ pc'.password = pc.password
                   /\ dbFile' = dbFile /\ pending' = pending
          /\ (pc.at = "confirm"
                /\ \E iv \in IVs, fault \in Faults : EnterConfirm(pc.password, iv, fault))
                => (pc' = Idle /\ last'.branch \in {"saved", "exists", "error"})]_vars
    /\ (pc # Idle) ~> (pc = Idle)

\* a call whose three confirmations all differed from the password has returned
C20_Witness ==
    /\ pc = Idle
    /\ last.op = "add_password" /\ last.branch = "mismatch"

====
